---- MODULE Spec2Model ----
(***************************************************************************)
(* The stylus native runtime: activation (stylus_activate), the call       *)
(* boundary (stylus_call), the live meter of a NativeInstance, the host    *)
(* bridge closures installed by set_go_api, and the init cache boundary    *)
(* (stylus_cache_module, stylus_evict_module, stylus_reorg_vm).            *)
(*                                                                         *)
(* SpecCall      runs one stylus_call from entry to the values written     *)
(*               back; SpecCallFair adds that the call keeps running.      *)
(* SpecCache     runs sequences of cache operations against the init       *)
(*               cache.                                                    *)
(* SpecActivate  runs activations, one after another.                      *)
(* SpecConc      runs cache operations made by two threads at once.        *)
(***************************************************************************)
EXTENDS Integers, Sequences, FiniteSets, TLC

(***************************************************************************)
(* Bounds.  U64_MAX stands for u64::MAX at a reduced width, so that the    *)
(* saturating conversions do saturate.                                     *)
(***************************************************************************)
U64_MAX == 7
MaxStepCost == 2
MaxCost == 2
MaxHostCalls == 2
MaxDepth == 2
MaxBlock == 2

VARIABLES
    pc,                 \* position of stylus_call: idle, running, host, returned, done
    gas_in,             \* *gas on entry
    pricing,            \* config.pricing: ink per gas, as num/den
    ink_budget,         \* the ink handed to run_main
    stylus_gas_left,    \* the instance's STYLUS_GAS_LEFT global
    stylus_gas_status,  \* the instance's STYLUS_GAS_STATUS global
    stylus_stack_left,  \* the instance's STYLUS_STACK_LEFT global
    pending,            \* what the external handler wrote for the host call in flight
    ext,                \* external operations the handler has carried out
    run,                \* what run_main returned
    status,             \* the UserOutcomeKind stylus_call returns
    output,             \* the RustBytes stylus_call wrote
    gas_out,            \* *gas on return
    paid,               \* the program has paid for a block since it started or last called out
    request,            \* what the closure of the host call in flight was given and passed on
    ret,                \* what the closure of the last contract call returned
    aborted,            \* the process panicked
    cache,              \* the init cache: its entries, least recently used first
    block,              \* the block the node is executing
    lastOp,             \* the last cache operation made
    prev,               \* the init cache before that operation
    act_args,           \* the arguments of the last stylus_activate
    act_prev,           \* what its out-parameters and the cache held before it
    act_status,         \* the UserOutcomeKind stylus_activate returned
    act_output,         \* the RustBytes stylus_activate wrote
    act_asm_len,            \* *asm_len
    act_module_hash,        \* *module_hash
    act_stylus_data,        \* *stylus_data
    act_gas,            \* *gas after stylus_activate
    lock,               \* the thread holding the init cache's lock, or "free"
    tpc,                \* each thread's position in its cache operation
    top,                \* the cache operation each thread is making
    tlocal,             \* what each thread has computed under the lock
    serial              \* the cache the operations give in the order the lock was taken

callVars == <<pc, gas_in, pricing, ink_budget, stylus_gas_left, stylus_gas_status,
              stylus_stack_left, pending, ext, run, status, output, gas_out,
              paid, request, ret>>

vars == <<pc, gas_in, pricing, ink_budget, stylus_gas_left, stylus_gas_status,
          stylus_stack_left, pending, ext, run, status, output, gas_out,
          paid, request, ret, aborted,
          cache, block, lastOp, prev,
          act_args, act_prev, act_status, act_output, act_asm_len, act_module_hash, act_stylus_data, act_gas,
          lock, tpc, top, tlocal, serial>>

cacheVars == <<cache, block, lastOp, prev>>

actVars == <<act_args, act_prev, act_status, act_output, act_asm_len, act_module_hash, act_stylus_data, act_gas>>

concVars == <<lock, tpc, top, tlocal, serial>>

Min(a, b) == IF a < b THEN a ELSE b

(***************************************************************************)
(* Pricing: ink = gas * ink_per_gas, flooring and saturating.              *)
(***************************************************************************)
Prices ==
    { [num |-> 1, den |-> 1], [num |-> 2, den |-> 1],
      [num |-> 3, den |-> 2], [num |-> 1, den |-> 2] }

gas_to_ink(p, gas) == Min(U64_MAX, (gas * p.num) \div p.den)

ink_to_gas(p, ink) == Min(U64_MAX, (ink * p.den) \div p.num)

(***************************************************************************)
(* Byte strings and error reports.  A byte string is a sequence of byte    *)
(* tokens; "xFF" is a byte that is not valid UTF-8.  An error report is    *)
(* its chain of messages, outermost first, each a sequence of tokens.      *)
(***************************************************************************)
ByteStrings == { <<>>, <<"e">>, <<"xFF">> }

from_utf8_lossy(bytes) ==
    [i \in DOMAIN bytes |-> IF bytes[i] = "xFF" THEN "uFFFD" ELSE bytes[i]]

error(data) == << from_utf8_lossy(data) >>

wrap_err(err, context) == << <<context>> >> \o err

RECURSIVE debug_bytes(_)
debug_bytes(err) ==
    IF err = <<>> THEN <<>>
    ELSE IF Len(err) = 1 THEN Head(err)
    ELSE Head(err) \o <<"Caused by">> \o debug_bytes(Tail(err))

(***************************************************************************)
(* The live meter of a NativeInstance.                                     *)
(***************************************************************************)
Ready(ink) == [tag |-> "Ready", ink |-> ink]
Exhausted == [tag |-> "Exhausted", ink |-> 0]

gas_left(gstatus, gleft) == IF gstatus = 0 THEN Ready(gleft) ELSE Exhausted

\* The two globals taken for one another.
set_gas_swapped(gas) == [left |-> 0, status |-> gas]

set_gas(gas) == [left |-> gas, status |-> 0]

meter_into(meter) == IF meter.tag = "Ready" THEN meter.ink ELSE 0

(***************************************************************************)
(* The external handlers of the GoApi.  A response is what the handler     *)
(* left behind: whether it wrote its cost pointer (touch) and with what    *)
(* (cost), its status, the bytes it left in its vector (data) and the      *)
(* return data length it wrote (len).                                      *)
(***************************************************************************)
CallKinds == {"contract_call", "delegate_call", "static_call"}

HostKinds == {"get_bytes32", "set_bytes32", "get_return_data", "emit_log"} \cup CallKinds

NoPending ==
    [kind |-> "none", evm_gas |-> 0, touch |-> FALSE, cost |-> 0,
     status |-> "Success", data |-> <<>>, len |-> 0]

Response(kind, evm_gas, touch, cost, st, data, len) ==
    [kind |-> kind, evm_gas |-> evm_gas, touch |-> touch, cost |-> cost,
     status |-> st, data |-> data, len |-> len]

Costs == { [touch |-> FALSE, cost |-> 0] } \cup { [touch |-> TRUE, cost |-> c] : c \in 0..MaxCost }

Responses(kind) ==
    CASE kind = "get_bytes32" ->
           { Response(kind, 0, c.touch, c.cost, "Success", d, 0) : c \in Costs, d \in ByteStrings }
      [] kind = "set_bytes32" ->
           { Response(kind, 0, c.touch, c.cost, "Success", <<>>, 0) : c \in Costs }
           \cup { Response(kind, 0, c.touch, c.cost, "Failure", d, 0) : c \in Costs, d \in ByteStrings }
      [] kind \in CallKinds ->
           { Response(kind, g, c.touch, c.cost, st, <<>>, l) :
               g \in {0, MaxCost}, c \in Costs, st \in {"Success", "Failure"}, l \in 0..1 }
      [] kind = "get_return_data" ->
           { Response(kind, 0, FALSE, 0, "Success", d, 0) : d \in ByteStrings }
      [] kind = "emit_log" ->
           { Response(kind, 0, FALSE, 0, st, d, 0) : st \in {"Success", "Failure"}, d \in ByteStrings }

\* The value of a local the handler was given a pointer to.
written(init, resp) == IF resp.touch THEN resp.cost ELSE init

(***************************************************************************)
(* What the program asks of a host call and what the closure passes to     *)
(* the handler.  Only contract_call takes a value to transfer.             *)
(***************************************************************************)
NoValue == 0 - 1

Requests(kind) ==
    CASE kind = "contract_call" -> { [evm_gas |-> g, value |-> v] : g \in {0, MaxCost}, v \in 0..1 }
      [] kind \in {"delegate_call", "static_call"} ->
           { [evm_gas |-> g, value |-> NoValue] : g \in {0, MaxCost} }
      [] OTHER -> { [evm_gas |-> 0, value |-> NoValue] }

\* The allowance started from nothing.
call_args_empty(kind, evm_gas, value) ==
    [call_gas |-> 0, value |-> IF kind = "contract_call" THEN value ELSE NoValue]

\* let mut call_gas = evm_gas; and the arguments of the handler.
call_args(kind, evm_gas, value) ==
    [call_gas |-> evm_gas, value |-> IF kind = "contract_call" THEN value ELSE NoValue]

NoRequest ==
    [kind |-> "none", evm_gas |-> 0, value |-> NoValue, passed |-> call_args("none", 0, NoValue)]

NoRet == [len |-> 0, cost |-> 0, status |-> "none"]

(***************************************************************************)
(* The closures set_go_api installs.  Each returns what the closure        *)
(* returns: Ok or Err, the cost it reports (has_cost tells whether the     *)
(* closure's result carries one), and what it hands on.                    *)
(***************************************************************************)
Ok(has_cost, cost, value, len, st) ==
    [tag |-> "Ok", has_cost |-> has_cost, cost |-> cost, err |-> <<>>,
     value |-> value, len |-> len, status |-> st]

Err(err) ==
    [tag |-> "Err", has_cost |-> FALSE, cost |-> 0, err |-> err,
     value |-> <<>>, len |-> 0, status |-> "Failure"]

\* The handler's cost left behind.
get_bytes32_free(resp) == Ok(TRUE, 0, resp.data, 0, "Success")

get_bytes32(resp) == Ok(TRUE, written(0, resp), resp.data, 0, "Success")

set_bytes32(resp) ==
    IF resp.status = "Success"
    THEN Ok(TRUE, written(0, resp), <<>>, 0, "Success")
    ELSE Err(error(resp.data))

contract_call(resp) == Ok(TRUE, written(resp.evm_gas, resp), <<>>, resp.len, resp.status)

delegate_call(resp) == Ok(TRUE, written(resp.evm_gas, resp), <<>>, resp.len, resp.status)

static_call(resp) == Ok(TRUE, written(resp.evm_gas, resp), <<>>, resp.len, resp.status)

get_return_data(resp) == Ok(FALSE, 0, resp.data, 0, "Success")

\* The handler's status ignored.
emit_log_unchecked(resp) == Ok(FALSE, 0, <<>>, 0, "Success")

emit_log(resp) ==
    IF resp.status = "Success"
    THEN Ok(FALSE, 0, <<>>, 0, "Success")
    ELSE Err(error(resp.data))

\* The closure the host function of this kind calls.
evm_api(resp) ==
    CASE resp.kind = "get_bytes32" -> get_bytes32(resp)
      [] resp.kind = "set_bytes32" -> set_bytes32(resp)
      [] resp.kind = "contract_call" -> contract_call(resp)
      [] resp.kind = "delegate_call" -> delegate_call(resp)
      [] resp.kind = "static_call" -> static_call(resp)
      [] resp.kind = "get_return_data" -> get_return_data(resp)
      [] resp.kind = "emit_log" -> emit_log(resp)

\* What a call closure hands to the host function that called it.
returned(kind, r) ==
    IF kind \in CallKinds /\ r.tag = "Ok"
    THEN [len |-> r.len, cost |-> r.cost, status |-> r.status]
    ELSE NoRet

(***************************************************************************)
(* UserOutcome, and what run_main returns: Ok(outcome) or Err(report).     *)
(***************************************************************************)
NoRun == [tag |-> "None", outs |-> <<>>, err |-> <<>>]

Success(outs) == [tag |-> "Success", outs |-> outs, err |-> <<>>]

Revert(outs) == [tag |-> "Revert", outs |-> outs, err |-> <<>>]

Failure(err) == [tag |-> "Failure", outs |-> <<>>, err |-> err]

OutOfInk == [tag |-> "OutOfInk", outs |-> <<>>, err |-> <<>>]

OutOfStack == [tag |-> "OutOfStack", outs |-> <<>>, err |-> <<>>]

RunErr(err) == [tag |-> "Err", outs |-> <<>>, err |-> err]

into_data(outcome) ==
    [kind |-> outcome.tag,
     data |-> CASE outcome.tag \in {"Success", "Revert"} -> outcome.outs
                [] outcome.tag = "Failure" -> debug_bytes(outcome.err)
                [] OTHER -> <<>>]

(***************************************************************************)
(* RustBytes::write_err and RustBytes::write_outcome: the bytes written    *)
(* to output and the UserOutcomeKind returned.                             *)
(***************************************************************************)
write_err(err) == [status |-> "Failure", output |-> debug_bytes(err)]

\* An outcome without data written by its name.
write_outcome_named(outcome) ==
    LET d == into_data(outcome)
    IN  [status |-> d.kind, output |-> IF d.data = <<>> THEN <<outcome.tag>> ELSE d.data]

write_outcome(outcome) ==
    LET d == into_data(outcome) IN [status |-> d.kind, output |-> d.data]

(***************************************************************************)
(* stylus_call, piecewise.                                                 *)
(***************************************************************************)
\* The conversions taken the wrong way round.
call_ink_swapped(p, gas) == ink_to_gas(p, gas)

\* A budget that is never empty.
call_ink_at_least_one(p, gas) == IF gas_to_ink(p, gas) = 0 THEN 1 ELSE gas_to_ink(p, gas)

\* let ink = pricing.gas_to_ink(*gas);
call_ink(p, gas) == gas_to_ink(p, gas)

\* A revert written as an error.
call_status_revert_fails(r) ==
    IF r.tag \in {"Err", "Failure", "Revert"}
    THEN write_err(wrap_err(<< r.outs >>, "call failed"))
    ELSE write_outcome(r)

\* let status = match instance.run_main(..) { .. };
call_status(r) ==
    IF r.tag \in {"Err", "Failure"}
    THEN write_err(wrap_err(r.err, "call failed"))
    ELSE write_outcome(r)

\* Without the out-of-stack arm.
call_ink_left_live(st, meter) == meter_into(meter)

\* let ink_left = match status { .. };
call_ink_left(st, meter) ==
    IF st = "OutOfStack" THEN 0 ELSE meter_into(meter)

\* The ink left written back as if it were gas.
call_gas_unconverted(p, ink_left) == ink_left

\* *gas = pricing.ink_to_gas(ink_left);
call_gas(p, ink_left) == ink_to_gas(p, ink_left)

(***************************************************************************)
(* Activation.  A wasm is the hash of its bytes, whether it parses, the    *)
(* pages it asks for and what each of its functions costs to instrument.   *)
(***************************************************************************)
Wasms ==
    { [hash |-> h, form |-> f, pages |-> pg, funcs |-> fs] :
        h \in {"h1", "h2"}, f \in {"ok", "malformed"}, pg \in 1..2,
        fs \in { <<1>>, <<1, MaxCost>> } }

Versions == {1, 3}

PageLimits == {1}

\* The gas budgets of an activation: none, too little, enough, more.
ActGas == 0..(MaxCost + 2)

supported(version) == version \in 1..2

NoArgs ==
    [wasm |-> [hash |-> "none", form |-> "none", pages |-> 0, funcs |-> <<>>],
     page_limit |-> 0, version |-> 0, debug |-> FALSE, gas |-> 0]

\* What the caller's out-parameters hold before anything is written to them.
UnsetLen == 0 - 1

UnsetHash == "unset"

UnsetData == [footprint |-> 0, version |-> 0]

\* Step 1: the structural validation, and the error it gives.
validate(wasm, version, page_limit) ==
    IF wasm.form # "ok" THEN << <<"failed to parse wasm">>, <<"malformed">> >>
    ELSE IF ~supported(version) THEN << <<"failed to parse wasm">>, <<"unsupported version">> >>
    ELSE IF wasm.pages > page_limit THEN << <<"failed to parse wasm">>, <<"page limit exceeded">> >>
    ELSE <<>>

\* Step 2: instrumentation pays function by function, each charge checked
\* before it is applied.
RECURSIVE instrument(_, _)
instrument(funcs, gas) ==
    IF funcs = <<>> THEN [ok |-> TRUE, gas |-> gas]
    ELSE IF gas < Head(funcs) THEN [ok |-> FALSE, gas |-> gas]
    ELSE instrument(Tail(funcs), gas - Head(funcs))

\* Step 3: the native code.
compile(wasm, debug) == [i \in DOMAIN wasm.funcs |-> IF debug THEN "asm_debug" ELSE "asm"]

\* Steps 4 and 5: the module, addressed by the hash of the original bytes,
\* and its StylusData.
Module(wasm, version) == [hash |-> wasm.hash, version |-> version]

Module_hash(module) == module.hash

into_bytes(module) == <<"module", module.hash>>

StylusData(wasm, version) == [footprint |-> wasm.pages, version |-> version]

ActOk(asm, module, info, gas) ==
    [tag |-> "Ok", asm |-> asm, module |-> module, info |-> info, err |-> <<>>, gas |-> gas]

ActErr(err, gas) ==
    [tag |-> "Err", asm |-> <<>>, module |-> Module(NoArgs.wasm, 0),
     info |-> StylusData(NoArgs.wasm, 0), err |-> err, gas |-> gas]

\* native::activate; gas is the caller's *gas, charged in place.
activate(wasm, version, page_limit, debug, gas) ==
    IF validate(wasm, version, page_limit) # <<>>
    THEN ActErr(validate(wasm, version, page_limit), gas)
    ELSE LET i == instrument(wasm.funcs, gas)
         IN  IF i.ok
             THEN ActOk(compile(wasm, debug), Module(wasm, version), StylusData(wasm, version), i.gas)
             ELSE ActErr(<< <<"out of gas">> >>, i.gas)

\* The out-parameters written before the result is looked at.
stylus_activate_eager(wasm, page_limit, version, debug, outs, gas) ==
    LET r == activate(wasm, version, page_limit, debug, gas)
    IN  [status |-> IF r.tag = "Err" THEN "Failure" ELSE "Success",
         output |-> IF r.tag = "Err" THEN debug_bytes(r.err) ELSE r.asm \o into_bytes(r.module),
         asm_len |-> Len(r.asm),
         module_hash |-> Module_hash(r.module),
         stylus_data |-> r.info,
         gas |-> r.gas]

\* A failed activation taking the whole budget.
stylus_activate_forfeit(wasm, page_limit, version, debug, outs, gas) ==
    LET r == activate(wasm, version, page_limit, debug, gas)
    IN  IF r.tag = "Err"
        THEN [status |-> "Failure", output |-> debug_bytes(r.err),
              asm_len |-> outs.asm_len, module_hash |-> outs.module_hash,
              stylus_data |-> outs.stylus_data, gas |-> 0]
        ELSE [status |-> "Success", output |-> r.asm \o into_bytes(r.module),
              asm_len |-> Len(r.asm), module_hash |-> Module_hash(r.module),
              stylus_data |-> r.info, gas |-> r.gas]

\* stylus_activate: outs is what asm_len, module_hash and stylus_data point
\* to on entry, gas what gas points to.
stylus_activate(wasm, page_limit, version, debug, outs, gas) ==
    LET r == activate(wasm, version, page_limit, debug, gas)
    IN  IF r.tag = "Err"
        THEN [status |-> write_err(r.err).status,
              output |-> write_err(r.err).output,
              asm_len |-> outs.asm_len,
              module_hash |-> outs.module_hash,
              stylus_data |-> outs.stylus_data,
              gas |-> r.gas]
        ELSE [status |-> "Success",
              output |-> r.asm \o into_bytes(r.module),
              asm_len |-> Len(r.asm),
              module_hash |-> Module_hash(r.module),
              stylus_data |-> r.info,
              gas |-> r.gas]

(***************************************************************************)
(* Charging the live meter: checked before it is applied.                  *)
(***************************************************************************)
buy(left, cost) ==
    IF left < cost
    THEN [ok |-> FALSE, left |-> left, status |-> 1]
    ELSE [ok |-> TRUE, left |-> left - cost, status |-> 0]

\* What the host function charges for a closure's result.
host_cost(r) == IF r.has_cost THEN r.cost ELSE 0

Outs == { <<>>, <<"o">> }


(***************************************************************************)
(* The init cache.  An entry holds its key, the artifact admitted under    *)
(* it, its tier, and the blocks at which it was admitted and promoted      *)
(* (NoBlock when it never was).  The sequence is in recency order, the     *)
(* least recently used entry first.                                        *)
(***************************************************************************)
Capacity == 2

NoBlock == 0 - 1

CacheKey(hash, version, debug) == [hash |-> hash, version |-> version, debug |-> debug]

Keys ==
    { CacheKey("h1", 1, FALSE), CacheKey("h1", 1, TRUE),
      CacheKey("h1", 2, FALSE), CacheKey("h2", 1, FALSE) }

Modules == {"m1", "m2", "bad"}

\* The structural re-check of the bytes offered for admission.
deserializes(module) == module # "bad"

NoKey == CacheKey("none", 0, FALSE)

NoOp == [op |-> "none", key |-> NoKey, module |-> "none", block |-> 0, ok |-> TRUE]

Op(op, key, module, b, ok) ==
    [op |-> op, key |-> key, module |-> module, block |-> b, ok |-> ok]

Indices(c, key) == { i \in DOMAIN c : c[i].key = key }

Without(c, i) == [j \in 1..(Len(c) - 1) |-> IF j < i THEN c[j] ELSE c[j + 1]]

\* The least recently used entry, whatever its tier.
victim_any_tier(c) == 1

\* The entry evicted when space is needed: the least recently used short-term
\* entry, and a long-term one only when no short-term entry is left.
victim(c) ==
    LET short == { i \in DOMAIN c : c[i].tier = "ShortTerm" }
    IN  IF short # {}
        THEN CHOOSE i \in short : \A j \in short : i <= j
        ELSE 1

make_room(c) == IF Len(c) < Capacity THEN c ELSE Without(c, victim(c))

\* A hit refreshes the entry's recency; a repeated insertion also promotes it.
refresh(c, i) == Append(Without(c, i), c[i])

promote(e, blk) ==
    IF e.tier = "ShortTerm"
    THEN [e EXCEPT !.tier = "LongTerm", !.promoted = blk]
    ELSE e

InitCache_get(c, key) ==
    IF Indices(c, key) = {}
    THEN c
    ELSE refresh(c, CHOOSE i \in Indices(c, key) : TRUE)

\* Room made before the key is looked up.
InitCache_insert_room_first(c, blk, hash, module, version, debug) ==
    LET key == CacheKey(hash, version, debug)
        d == make_room(c)
        hit == Indices(d, key)
    IN  IF ~deserializes(module)
        THEN [tag |-> "Err", cache |-> c]
        ELSE IF hit # {}
        THEN LET i == CHOOSE i \in hit : TRUE
             IN  [tag |-> "Ok", cache |-> Append(Without(d, i), promote(d[i], blk))]
        ELSE [tag |-> "Ok",
              cache |-> Append(d,
                               [key |-> key, artifact |-> module, tier |-> "ShortTerm",
                                admitted |-> blk, promoted |-> NoBlock])]

InitCache_insert(c, blk, hash, module, version, debug) ==
    LET key == CacheKey(hash, version, debug)
        hit == Indices(c, key)
    IN  IF ~deserializes(module)
        THEN [tag |-> "Err", cache |-> c]
        ELSE IF hit # {}
        THEN LET i == CHOOSE i \in hit : TRUE
             IN  [tag |-> "Ok", cache |-> Append(Without(c, i), promote(c[i], blk))]
        ELSE [tag |-> "Ok",
              cache |-> Append(make_room(c),
                               [key |-> key, artifact |-> module, tier |-> "ShortTerm",
                                admitted |-> blk, promoted |-> NoBlock])]

InitCache_evict(c, hash, version, debug) ==
    SelectSeq(c, LAMBDA e : e.key # CacheKey(hash, version, debug))

\* Undo every admission and promotion tagged at or after b.
InitCache_reorg(c, b) ==
    LET kept == SelectSeq(c, LAMBDA e : e.admitted < b)
    IN  [i \in DOMAIN kept |->
           IF kept[i].promoted >= b
           THEN [kept[i] EXCEPT !.tier = "ShortTerm", !.promoted = NoBlock]
           ELSE kept[i]]

(***************************************************************************)
(* The cache's boundary operations.                                        *)
(***************************************************************************)
\* The error of insert swallowed.
stylus_cache_module_swallow(c, blk, module, module_hash, version, debug) ==
    LET r == InitCache_insert(c, blk, module_hash, module, version, debug)
    IN  [panic |-> FALSE, cache |-> r.cache]

\* The version and the debug flag not looked at.
stylus_evict_module_any(c, module_hash, version, debug) ==
    SelectSeq(c, LAMBDA e : e.key.hash # module_hash)

\* The debug flag not handed on.
stylus_cache_module_no_debug(c, blk, module, module_hash, version, debug) ==
    LET r == InitCache_insert(c, blk, module_hash, module, version, FALSE)
    IN  [panic |-> r.tag = "Err", cache |-> r.cache]

stylus_cache_module(c, blk, module, module_hash, version, debug) ==
    LET r == InitCache_insert(c, blk, module_hash, module, version, debug)
    IN  [panic |-> r.tag = "Err", cache |-> r.cache]

stylus_evict_module(c, module_hash, version, debug) ==
    InitCache_evict(c, module_hash, version, debug)

\* The block itself spared.
stylus_reorg_vm_after(c, b) == InitCache_reorg(c, b + 1)

stylus_reorg_vm(c, b) == InitCache_reorg(c, b)

Threads == {"t1", "t2"}

\* The program has paid for its first block.
entered == stylus_gas_left < ink_budget

(***************************************************************************)
(* Initial state: no call made, an empty cache.                            *)
(***************************************************************************)
InitNoCache ==
    /\ pc = "idle"
    /\ gas_in = 0
    /\ pricing = [num |-> 1, den |-> 1]
    /\ ink_budget = 0
    /\ stylus_gas_left = 0
    /\ stylus_gas_status = 0
    /\ stylus_stack_left = 0
    /\ pending = NoPending
    /\ ext = 0
    /\ run = NoRun
    /\ status = "None"
    /\ output = <<>>
    /\ gas_out = 0
    /\ paid = FALSE
    /\ request = NoRequest
    /\ ret = NoRet
    /\ aborted = FALSE
    /\ block = 0
    /\ act_args = NoArgs
    /\ act_prev = [asm_len |-> UnsetLen, module_hash |-> UnsetHash,
                   stylus_data |-> UnsetData, cache |-> <<>>]
    /\ act_status = "None"
    /\ act_output = <<>>
    /\ act_asm_len = UnsetLen
    /\ act_module_hash = UnsetHash
    /\ act_stylus_data = UnsetData
    /\ act_gas = 0
    /\ lock = "free"
    /\ tpc = [t \in Threads |-> "idle"]
    /\ top = [t \in Threads |-> NoOp]
    /\ tlocal = [t \in Threads |-> <<>>]
    /\ serial = <<>>

Init ==
    /\ InitNoCache
    /\ cache = <<>>
    /\ lastOp = NoOp
    /\ prev = <<>>

(***************************************************************************)
(* stylus_call up to the program's first instruction: the budget is        *)
(* converted, the instance deserialized, and run_main sets the meter and   *)
(* the stack.                                                              *)
(***************************************************************************)
StylusCallEnter(gas, p) ==
    /\ pc = "idle" /\ ~aborted
    /\ gas_in' = gas
    /\ pricing' = p
    /\ ink_budget' = call_ink(p, gas)
    /\ stylus_gas_left' = set_gas(call_ink(p, gas)).left
    /\ stylus_gas_status' = set_gas(call_ink(p, gas)).status
    /\ stylus_stack_left' = MaxDepth
    /\ pc' = "running"
    /\ UNCHANGED <<pending, ext, run, status, output, gas_out, paid, request, ret,
                   aborted, cacheVars, actVars, concVars>>

\* deserialize_cached failed: util::panic_with_wasm.
StylusCallInitFailed ==
    /\ pc = "idle" /\ ~aborted
    /\ aborted' = TRUE
    /\ UNCHANGED <<callVars, cacheVars, actVars, concVars>>

\* run_main could not start the program.
RunMainErr ==
    /\ pc = "running" /\ ~aborted
    /\ stylus_gas_left = ink_budget /\ ext = 0 /\ stylus_stack_left = MaxDepth
    /\ run' = RunErr(<< <<"no entry point">> >>)
    /\ pc' = "returned"
    /\ UNCHANGED <<gas_in, pricing, ink_budget, stylus_gas_left, stylus_gas_status,
                   stylus_stack_left, pending, ext, status, output, gas_out,
                   paid, request, ret, aborted, cacheVars, actVars, concVars>>

(***************************************************************************)
(* The instrumented program.                                               *)
(***************************************************************************)
\* A metered block of instructions of cost c.
Step(c) ==
    /\ pc = "running" /\ ~aborted
    /\ LET b == buy(stylus_gas_left, c) IN
         /\ stylus_gas_left' = b.left
         /\ stylus_gas_status' = b.status
         /\ IF b.ok
            THEN paid' = TRUE /\ UNCHANGED <<pc, run>>
            ELSE pc' = "returned" /\ run' = OutOfInk /\ UNCHANGED paid
    /\ ret' = NoRet
    /\ UNCHANGED <<gas_in, pricing, ink_budget, stylus_stack_left, pending, ext,
                   status, output, gas_out, request, aborted, cacheVars, actVars, concVars>>

\* Entering a function whose frame needs f words of stack.
Enter(f) ==
    /\ pc = "running" /\ ~aborted
    /\ entered
    /\ IF stylus_stack_left < f
       THEN /\ stylus_stack_left' = 0
            /\ pc' = "returned"
            /\ run' = OutOfStack
       ELSE /\ stylus_stack_left' = stylus_stack_left - f
            /\ UNCHANGED <<pc, run>>
    /\ ret' = NoRet
    /\ UNCHANGED <<gas_in, pricing, ink_budget, stylus_gas_left, stylus_gas_status,
                   pending, ext, status, output, gas_out, paid, request,
                   aborted, cacheVars, actVars, concVars>>

\* The entry point returns: 0 is success, anything else a revert.
Return(code, outs) ==
    /\ pc = "running" /\ ~aborted
    /\ entered
    /\ run' = IF code = 0 THEN Success(outs) ELSE Revert(outs)
    /\ pc' = "returned"
    /\ ret' = NoRet
    /\ UNCHANGED <<gas_in, pricing, ink_budget, stylus_gas_left, stylus_gas_status,
                   stylus_stack_left, pending, ext, status, output, gas_out,
                   paid, request, aborted, cacheVars, actVars, concVars>>

\* Any other trap.
Trap ==
    /\ pc = "running" /\ ~aborted
    /\ entered
    /\ run' = Failure(<< <<"trap">> >>)
    /\ pc' = "returned"
    /\ ret' = NoRet
    /\ UNCHANGED <<gas_in, pricing, ink_budget, stylus_gas_left, stylus_gas_status,
                   stylus_stack_left, pending, ext, status, output, gas_out,
                   paid, request, aborted, cacheVars, actVars, concVars>>

(***************************************************************************)
(* A host call: the program calls out, the external handler runs to its    *)
(* end (HostInvoke), then the closure returns and the host function        *)
(* charges, traps or resumes the program (HostReturn).                     *)
(***************************************************************************)
HostInvoke(kind, req, resp) ==
    /\ pc = "running" /\ ~aborted
    /\ paid
    /\ ext < MaxHostCalls
    /\ req \in Requests(kind)
    /\ resp \in Responses(kind)
    /\ resp.evm_gas = call_args(kind, req.evm_gas, req.value).call_gas
    /\ request' = [kind |-> kind, evm_gas |-> req.evm_gas, value |-> req.value,
                   passed |-> call_args(kind, req.evm_gas, req.value)]
    /\ pending' = resp
    /\ ext' = ext + 1
    /\ pc' = "host"
    /\ paid' = FALSE
    /\ ret' = NoRet
    /\ UNCHANGED <<gas_in, pricing, ink_budget, stylus_gas_left, stylus_gas_status,
                   stylus_stack_left, run, status, output, gas_out, aborted, cacheVars, actVars, concVars>>

HostReturn ==
    /\ pc = "host" /\ ~aborted
    /\ LET r == evm_api(pending)
           b == buy(stylus_gas_left, host_cost(r))
       IN  /\ ret' = returned(pending.kind, r)
           /\ IF r.tag = "Err"
              THEN /\ run' = Failure(r.err)
                   /\ pc' = "returned"
                   /\ UNCHANGED <<stylus_gas_left, stylus_gas_status, pending, request>>
              ELSE /\ stylus_gas_left' = b.left
                   /\ stylus_gas_status' = b.status
                   /\ IF b.ok
                      THEN /\ pc' = "running"
                           /\ pending' = NoPending
                           /\ request' = NoRequest
                           /\ UNCHANGED run
                      ELSE /\ pc' = "returned"
                           /\ run' = OutOfInk
                           /\ UNCHANGED <<pending, request>>
    /\ UNCHANGED <<gas_in, pricing, ink_budget, stylus_stack_left, ext,
                   status, output, gas_out, paid, aborted, cacheVars, actVars, concVars>>

(***************************************************************************)
(* stylus_call after run_main: the status and output, the ink left, the    *)
(* gas written back.                                                       *)
(***************************************************************************)
StylusCallExit ==
    /\ pc = "returned" /\ ~aborted
    /\ LET w == call_status(run)
           ink_left == call_ink_left(w.status, gas_left(stylus_gas_status, stylus_gas_left))
       IN  /\ status' = w.status
           /\ output' = w.output
           /\ gas_out' = call_gas(pricing, ink_left)
    /\ pc' = "done"
    /\ UNCHANGED <<gas_in, pricing, ink_budget, stylus_gas_left, stylus_gas_status,
                   stylus_stack_left, pending, ext, run, paid, request, ret,
                   aborted, cacheVars, actVars, concVars>>

NextCall ==
    \/ \E gas \in 0..U64_MAX, p \in Prices : StylusCallEnter(gas, p)
    \/ StylusCallInitFailed
    \/ RunMainErr
    \/ \E c \in 1..MaxStepCost : Step(c)
    \/ \E f \in 1..MaxDepth : Enter(f)
    \/ \E code \in 0..1, outs \in Outs : Return(code, outs)
    \/ Trap
    \/ \E kind \in HostKinds : \E req \in Requests(kind) : \E resp \in Responses(kind) :
          HostInvoke(kind, req, resp)
    \/ HostReturn
    \/ StylusCallExit

SpecCall == Init /\ [][NextCall]_vars

\* A call runs to its end on its own thread: the program does not stall, and
\* every handler returns.
SpecCallFair == SpecCall /\ WF_vars(NextCall)

(***************************************************************************)
(* Cache operations, each under the cache's lock from start to end.        *)
(***************************************************************************)
CacheModule(module, key) ==
    /\ ~aborted
    /\ LET r == stylus_cache_module(cache, block, module, key.hash, key.version, key.debug)
       IN  /\ cache' = r.cache
           /\ aborted' = r.panic
           /\ lastOp' = Op("insert", key, module, block, ~r.panic)
    /\ prev' = cache
    /\ UNCHANGED <<callVars, actVars, concVars, block>>

EvictModule(key) ==
    /\ ~aborted
    /\ cache' = stylus_evict_module(cache, key.hash, key.version, key.debug)
    /\ lastOp' = Op("evict", key, "none", block, TRUE)
    /\ prev' = cache
    /\ UNCHANGED <<callVars, actVars, concVars, block, aborted>>

ReorgVm(b) ==
    /\ ~aborted
    /\ cache' = stylus_reorg_vm(cache, b)
    /\ block' = Min(block, b)
    /\ lastOp' = Op("reorg", NoKey, "none", b, TRUE)
    /\ prev' = cache
    /\ UNCHANGED <<callVars, actVars, concVars, aborted>>

\* An executor looks a module up.
CacheGet(key) ==
    /\ ~aborted
    /\ cache' = InitCache_get(cache, key)
    /\ lastOp' = Op("get", key, "none", block, Indices(cache, key) # {})
    /\ prev' = cache
    /\ UNCHANGED <<callVars, actVars, concVars, block, aborted>>

\* The node moves on to the next block.
NewBlock ==
    /\ ~aborted
    /\ block < MaxBlock
    /\ block' = block + 1
    /\ lastOp' = Op("block", NoKey, "none", block + 1, TRUE)
    /\ prev' = cache
    /\ UNCHANGED <<callVars, actVars, concVars, cache, aborted>>

NextCache ==
    \/ \E module \in Modules, key \in Keys : CacheModule(module, key)
    \/ \E key \in Keys : EvictModule(key)
    \/ \E b \in 0..MaxBlock : ReorgVm(b)
    \/ \E key \in Keys : CacheGet(key)
    \/ NewBlock

SpecCache == Init /\ [][NextCache]_vars

(***************************************************************************)
(* stylus_activate, from entry to return.  The caller's out-parameters     *)
(* keep what an earlier activation left in them.                           *)
(***************************************************************************)
StylusActivate(wasm, page_limit, version, debug, gas) ==
    /\ ~aborted
    /\ LET outs == [asm_len |-> act_asm_len, module_hash |-> act_module_hash, stylus_data |-> act_stylus_data]
           r == stylus_activate(wasm, page_limit, version, debug, outs, gas)
       IN  /\ act_status' = r.status
           /\ act_output' = r.output
           /\ act_asm_len' = r.asm_len
           /\ act_module_hash' = r.module_hash
           /\ act_stylus_data' = r.stylus_data
           /\ act_gas' = r.gas
    /\ act_args' = [wasm |-> wasm, page_limit |-> page_limit, version |-> version,
                    debug |-> debug, gas |-> gas]
    /\ act_prev' = [asm_len |-> act_asm_len, module_hash |-> act_module_hash,
                    stylus_data |-> act_stylus_data, cache |-> cache]
    /\ UNCHANGED <<callVars, cacheVars, concVars, aborted>>

NextActivate ==
    \E wasm \in Wasms, page_limit \in PageLimits, version \in Versions,
       debug \in BOOLEAN, gas \in ActGas :
        StylusActivate(wasm, page_limit, version, debug, gas)

\* The node activates with nothing cached, or after it has cached the
\* module of an earlier activation.
InitActivate ==
    /\ InitNoCache
    /\ \/ cache = <<>> /\ lastOp = NoOp
       \/ /\ cache = stylus_cache_module(<<>>, 0, "m1", "h1", 1, FALSE).cache
          /\ lastOp = Op("insert", CacheKey("h1", 1, FALSE), "m1", 0, TRUE)
    /\ prev = <<>>

SpecActivate == InitActivate /\ [][NextActivate]_vars

(***************************************************************************)
(* Cache operations made by several threads at once.  A thread calls one   *)
(* of the cache functions, takes the cache's lock, works out the new       *)
(* cache from the one it finds, stores it and lets the lock go.            *)
(***************************************************************************)
ConcKeys == { CacheKey("h1", 1, FALSE), CacheKey("h2", 1, FALSE) }

ConcOps ==
    { Op("insert", k, "m1", 0, TRUE) : k \in ConcKeys }
    \cup { Op("evict", k, "none", 0, TRUE) : k \in ConcKeys }
    \cup { Op("get", k, "none", 0, TRUE) : k \in ConcKeys }
    \cup { Op("reorg", NoKey, "none", b, TRUE) : b \in 0..1 }

\* The cache an operation makes of the cache it finds.
apply(op, c, blk) ==
    CASE op.op = "insert" ->
           stylus_cache_module(c, blk, op.module, op.key.hash, op.key.version, op.key.debug).cache
      [] op.op = "evict" -> stylus_evict_module(c, op.key.hash, op.key.version, op.key.debug)
      [] op.op = "get" -> InitCache_get(c, op.key)
      [] op.op = "reorg" -> stylus_reorg_vm(c, op.block)
      [] OTHER -> c

\* A lock that lets everyone in.
lock_free_always(l) == TRUE

lock_free(l) == l = "free"

ThreadCall(t, op) ==
    /\ ~aborted
    /\ tpc[t] = "idle"
    /\ tpc' = [tpc EXCEPT ![t] = "waiting"]
    /\ top' = [top EXCEPT ![t] = op]
    /\ UNCHANGED <<callVars, actVars, cacheVars, aborted, lock, tlocal, serial>>

LockAcquire(t) ==
    /\ ~aborted
    /\ tpc[t] = "waiting"
    /\ lock_free(lock)
    /\ lock' = t
    /\ tpc' = [tpc EXCEPT ![t] = "locked"]
    /\ serial' = apply(top[t], serial, block)
    /\ UNCHANGED <<callVars, actVars, cacheVars, aborted, top, tlocal>>

ThreadCompute(t) ==
    /\ ~aborted
    /\ tpc[t] = "locked"
    /\ tlocal' = [tlocal EXCEPT ![t] = apply(top[t], cache, block)]
    /\ tpc' = [tpc EXCEPT ![t] = "computed"]
    /\ UNCHANGED <<callVars, actVars, cacheVars, aborted, lock, top, serial>>

ThreadCommit(t) ==
    /\ ~aborted
    /\ tpc[t] = "computed"
    /\ cache' = tlocal[t]
    /\ prev' = cache
    /\ lastOp' = top[t]
    /\ lock' = "free"
    /\ tpc' = [tpc EXCEPT ![t] = "idle"]
    /\ tlocal' = [tlocal EXCEPT ![t] = <<>>]
    /\ UNCHANGED <<callVars, actVars, block, aborted, top, serial>>

NextConc ==
    \/ \E t \in Threads, op \in ConcOps : ThreadCall(t, op)
    \/ \E t \in Threads : LockAcquire(t)
    \/ \E t \in Threads : ThreadCompute(t)
    \/ \E t \in Threads : ThreadCommit(t)

SpecConc == Init /\ [][NextConc]_vars

(***************************************************************************)
(* Properties.                                                             *)
(***************************************************************************)
Range(c) == { c[i] : i \in DOMAIN c }

Content(c) == { [key |-> e.key, artifact |-> e.artifact] : e \in Range(c) }

CachedKeys(c) == { e.key : e \in Range(c) }

\* C1: a call that ends OutOfStack writes back 0 gas, whatever the live
\* meter held when the stack check tripped.
C1_OutOfStackTakesAllGas ==
    (pc = "done" /\ status = "OutOfStack") => gas_out = 0

C1_Witness ==
    /\ pc = "done" /\ status = "OutOfStack"
    /\ stylus_gas_status = 0
    /\ ink_to_gas(pricing, stylus_gas_left) > 0
    /\ stylus_gas_left + 1 = ink_budget

\* C2: the ink a call starts with, converted back, is never more gas than
\* the call was given: ink_to_gas(gas_to_ink(g)) <= g.
C2_NoGasManufactured ==
    pc # "idle" => ink_to_gas(pricing, ink_budget) <= gas_in

\* The product overflowed and was saturated, and the way back floors.
C2_Witness ==
    /\ pc # "idle"
    /\ (gas_in * pricing.num) \div pricing.den > U64_MAX
    /\ ink_budget = U64_MAX
    /\ ink_to_gas(pricing, ink_budget) < gas_in
    /\ ink_to_gas(pricing, ink_budget) > 0

\* C3: reorg(b) removes exactly the entries admitted at blocks >= b and keeps
\* every entry admitted at a block < b, with its artifact and admission block.
C3_ReorgRemovesFromBlock ==
    lastOp.op = "reorg" =>
        /\ \A e \in Range(prev) :
             IF e.admitted >= lastOp.block
             THEN e.key \notin CachedKeys(cache)
             ELSE \E f \in Range(cache) :
                    /\ f.key = e.key
                    /\ f.artifact = e.artifact
                    /\ f.admitted = e.admitted
        /\ CachedKeys(cache) \subseteq CachedKeys(prev)
        /\ Len(cache) = Cardinality({ i \in DOMAIN prev : prev[i].admitted < lastOp.block })

\* Entries of block b - 1 and of block b, then reorg(b).
C3_Witness ==
    /\ lastOp.op = "reorg"
    /\ \E e \in Range(prev) : e.admitted = lastOp.block /\ e.key \notin CachedKeys(cache)
    /\ \E e \in Range(prev) : e.admitted = lastOp.block - 1 /\ e.key \in CachedKeys(cache)

\* The cost the external handler left in the cost (or allowance) it was given
\* a pointer to; emit_log and get_return_data are given none.
reported(resp) ==
    CASE resp.kind \in CallKinds -> IF resp.touch THEN resp.cost ELSE resp.evm_gas
      [] resp.kind \in {"get_bytes32", "set_bytes32"} -> IF resp.touch THEN resp.cost ELSE 0
      [] OTHER -> 0

\* The handler's status is a failure that the closure turns into an error.
refused(resp) == resp.status = "Failure" /\ resp.kind \in {"set_bytes32", "emit_log"}

\* C4 as stated: after every host call the cost the handler reported has been
\* charged, or it exceeded the ink left and the run ended OutOfInk.
C4_Original ==
    [][pc = "host" =>
         \/ /\ reported(pending) <= stylus_gas_left
            /\ stylus_gas_left' = stylus_gas_left - reported(pending)
         \/ /\ reported(pending) > stylus_gas_left
            /\ pc' = "returned" /\ run' = OutOfInk]_vars

\* C4, amended: a host call whose handler did not fail is charged the cost the
\* handler reported before the program resumes; a charge above the ink left ends
\* the run OutOfInk; a failed set_bytes32 or emit_log ends the run with Failure
\* and its cost is dropped.  Once the run has ended no step follows, the
\* external operations stay done and no ink comes back.
C4_ChargedBeforeResume ==
    /\ [][/\ pc = "host" =>
               /\ ext' = ext
               /\ IF refused(pending)
                  THEN /\ pc' = "returned" /\ run'.tag = "Failure"
                       /\ stylus_gas_left' = stylus_gas_left
                  ELSE IF reported(pending) <= stylus_gas_left
                  THEN /\ pc' = "running" /\ run' = NoRun
                       /\ stylus_gas_left' = stylus_gas_left - reported(pending)
                       /\ stylus_gas_status' = 0
                  ELSE /\ pc' = "returned" /\ run' = OutOfInk
                       /\ stylus_gas_left' = stylus_gas_left
                       /\ stylus_gas_status' = 1
          /\ pc \in {"returned", "done"} =>
               /\ pc' = "done"
               /\ ext' = ext /\ run' = run
               /\ stylus_gas_left' = stylus_gas_left]_vars
    /\ []((pc = "done" /\ run = OutOfInk) => (status = "OutOfInk" /\ gas_out = 0))

\* A storage read whose cost is more than the ink left: the read is done, the
\* run is over.
C4_Witness ==
    /\ pc = "done" /\ status = "OutOfInk"
    /\ pending.kind = "get_bytes32" /\ pending.touch
    /\ pending.cost > stylus_gas_left
    /\ stylus_gas_left > 0
    /\ ext = 1

\* C5: the meter stays within 0..ink_budget; a charge above what is left
\* leaves it where it was, sets the exhausted status and ends the run OutOfInk.
C5_MeterNeverUnderflows ==
    /\ pc # "idle" => (0 <= stylus_gas_left /\ stylus_gas_left <= ink_budget)
    /\ stylus_gas_status \in {0, 1}
    /\ stylus_gas_status # 0 <=> run = OutOfInk
    /\ run = OutOfInk => pc \in {"returned", "done"}
    /\ (pc = "done" /\ stylus_gas_status # 0) => status = "OutOfInk"

C5_Witness ==
    /\ pc = "done" /\ status = "OutOfInk"
    /\ stylus_gas_status = 1
    /\ stylus_gas_left > 0
    /\ stylus_gas_left < ink_budget

\* C6: no two entries of the cache share a key; an insert leaves an entry
\* under exactly the key it was given, and no operation changes the artifact
\* held under another key; an evict leaves every other key's entry in place.
C6_OneArtifactPerKey ==
    /\ \A i, j \in DOMAIN cache : cache[i].key = cache[j].key => i = j
    /\ (lastOp.op = "insert" /\ lastOp.ok) => lastOp.key \in CachedKeys(cache)
    /\ \A e \in Range(cache) :
         (e.key # lastOp.key /\ e.key \in CachedKeys(prev))
             => [key |-> e.key, artifact |-> e.artifact] \in Content(prev)
    /\ \A e \in Range(cache) :
         e.key \notin CachedKeys(prev) => (lastOp.op = "insert" /\ e.key = lastOp.key)
    /\ lastOp.op = "evict" =>
         \A e \in Range(prev) : e.key # lastOp.key => e \in Range(cache)

\* One content hash under two debug modes, each with its own artifact.
C6_Witness ==
    /\ lastOp.op = "insert" /\ lastOp.ok
    /\ lastOp.key = CacheKey("h1", 1, TRUE)
    /\ [key |-> CacheKey("h1", 1, TRUE), artifact |-> "m2"] \in Content(cache)
    /\ [key |-> CacheKey("h1", 1, FALSE), artifact |-> "m1"] \in Content(cache)
    /\ [key |-> CacheKey("h1", 1, FALSE), artifact |-> "m1"] \in Content(prev)
    /\ CacheKey("h1", 1, TRUE) \notin CachedKeys(prev)

\* C7: inserting under a key the bytes the cache already holds under it leaves
\* the cached keys and the artifact under each of them as they were.
C7_InsertIdempotent ==
    (/\ lastOp.op = "insert" /\ lastOp.ok
     /\ [key |-> lastOp.key, artifact |-> lastOp.module] \in Content(prev))
        => Content(cache) = Content(prev)

\* The cache is full, the entry inserted again is the least recently used one;
\* its recency and tier change.
C7_Witness ==
    /\ lastOp.op = "insert" /\ lastOp.ok
    /\ Len(prev) = Capacity
    /\ prev[1].key = lastOp.key /\ prev[1].artifact = lastOp.module
    /\ prev[1].tier = "ShortTerm"
    /\ cache[Len(cache)].key = lastOp.key
    /\ cache[Len(cache)].tier = "LongTerm"

\* C8: every artifact in the cache passes the re-check; an insert whose bytes
\* fail it panics and leaves the cache as it was, and nothing else panics.
C8_NoAdmissionWithoutRecheck ==
    /\ \A e \in Range(cache) : deserializes(e.artifact)
    /\ (lastOp.op = "insert" /\ ~deserializes(lastOp.module)) =>
           (aborted /\ ~lastOp.ok /\ cache = prev)
    /\ aborted => (lastOp.op = "insert" /\ ~deserializes(lastOp.module))

C8_Witness ==
    /\ lastOp.op = "insert" /\ lastOp.module = "bad"
    /\ aborted
    /\ Len(cache) = Capacity
    /\ lastOp.key \notin CachedKeys(cache)

\* C9 as stated: whenever the handler of a host call, of any kind, reports a
\* failure status the run ends with Failure, its message the handler's error
\* bytes (read here as the text they decode to).
C9_Original ==
    [][(pc = "host" /\ pending.status = "Failure") =>
          (pc' = "returned" /\ run' = Failure(<< from_utf8_lossy(pending.data) >>))]_vars

\* C9, amended: a failure status of set_bytes32 or emit_log ends the run with
\* Failure, and stylus_call writes as message the handler's error bytes, decoded
\* as UTF-8 with replacement, under the context "call failed"; a failure status
\* of one of the three call kinds is handed to the program, which goes on (or
\* runs out of ink on the call's cost).
C9_HostFailure ==
    /\ [][(pc = "host" /\ pending.status = "Failure") =>
            IF pending.kind \in {"set_bytes32", "emit_log"}
            THEN /\ pc' = "returned"
                 /\ run' = Failure(<< from_utf8_lossy(pending.data) >>)
            ELSE /\ pending.kind \in CallKinds
                 /\ \/ pc' = "running" /\ run' = NoRun
                    \/ pc' = "returned" /\ run' = OutOfInk]_vars
    /\ []((/\ pc = "done" /\ pending.status = "Failure"
           /\ pending.kind \in {"set_bytes32", "emit_log"}) =>
              /\ status = "Failure"
              /\ output = <<"call failed", "Caused by">> \o from_utf8_lossy(pending.data))

\* emit_log fails with bytes that are not UTF-8.
C9_Witness ==
    /\ pc = "done" /\ status = "Failure"
    /\ pending.kind = "emit_log" /\ pending.status = "Failure"
    /\ pending.data = <<"xFF">>
    /\ output = <<"call failed", "Caused by", "uFFFD">>

C11_ExhaustionByCodeAlone ==
    pc = "done" =>
        /\ run.tag \in {"OutOfInk", "OutOfStack"} =>
              /\ status = run.tag
              /\ status \notin {"Failure", "Success", "Revert"}
              /\ output = <<>>
        /\ status = "Failure" =>
              /\ output # <<>>
              /\ output = debug_bytes(wrap_err(run.err, "call failed"))
              /\ Head(output) = "call failed"

\* The meter was exhausted by a host charge after the program had run.
C11_Witness ==
    /\ pc = "done" /\ status = "OutOfInk" /\ output = <<>>
    /\ stylus_gas_status # 0 /\ ext > 0 /\ stylus_gas_left < ink_budget

\* What native::activate returned to the last stylus_activate.
activated ==
    activate(act_args.wasm, act_args.version, act_args.page_limit, act_args.debug, act_args.gas)

\* Why the last activation was refused, if it was.
rejected == validate(act_args.wasm, act_args.version, act_args.page_limit) # <<>>

\* C12: an activation refused by the structural validation writes back the
\* whole gas budget; a failed activation that writes back less ran out of gas
\* while instrumenting, and no activation writes back more than it was given.
C12_ValidationChargesNothing ==
    act_args # NoArgs =>
        /\ rejected => (act_status = "Failure" /\ act_gas = act_args.gas)
        /\ (act_status = "Failure" /\ act_gas < act_args.gas) =>
              (~rejected /\ ~instrument(act_args.wasm.funcs, act_args.gas).ok)
        /\ act_gas <= act_args.gas

\* A wasm over the page limit, refused with gas that would have paid for it.
C12_Witness ==
    /\ act_args # NoArgs /\ rejected
    /\ act_args.wasm.form = "ok" /\ act_args.wasm.pages > act_args.page_limit
    /\ instrument(act_args.wasm.funcs, act_args.gas).ok
    /\ act_gas = act_args.gas /\ act_gas > 0
    /\ act_status = "Failure"

critical == { t \in Threads : tpc[t] \in {"locked", "computed"} }

\* C14: at most one thread is inside the cache's critical section, and the
\* cache is the one the operations give when made one after another in the
\* order the lock was taken: a completed insert is in the cache, a key of a
\* completed evict is not.
C14_CacheOpsSerialized ==
    /\ Cardinality(critical) <= 1
    /\ lock = "free" <=> critical = {}
    /\ lock = "free" => cache = serial
    /\ lastOp.op = "insert" => lastOp.key \in CachedKeys(cache)
    /\ lastOp.op = "evict" => lastOp.key \notin CachedKeys(cache)

\* One thread has just evicted a key while the other waits to insert it
\* again, the other key still cached.
C14_Witness ==
    /\ lock = "free"
    /\ lastOp.op = "evict" /\ lastOp.key \in CachedKeys(prev)
    /\ cache # <<>>
    /\ \E t \in Threads :
         tpc[t] = "waiting" /\ top[t].op = "insert" /\ top[t].key = lastOp.key

\* The last operation admitted a key the cache did not hold.
admitted_new ==
    lastOp.op = "insert" /\ lastOp.ok /\ lastOp.key \notin CachedKeys(prev)

\* C15: an insertion that needs room removes one entry: a short-term one
\* whenever the cache holds one, and then the least recently used of them;
\* an insertion that needs no room removes none.
C15_ShortTermEvictedFirst ==
    admitted_new =>
        LET gone == { i \in DOMAIN prev : prev[i].key \notin CachedKeys(cache) }
            short == { i \in DOMAIN prev : prev[i].tier = "ShortTerm" }
        IN  /\ Len(prev) < Capacity => gone = {}
            /\ Len(prev) = Capacity => Cardinality(gone) = 1
            /\ \A i \in gone :
                 short # {} => (i \in short /\ \A j \in short : i <= j)

\* The least recently used entry is long-term and stays; the short-term
\* entry used after it goes.
C15_Witness ==
    /\ admitted_new
    /\ Len(prev) = Capacity
    /\ prev[1].tier = "LongTerm" /\ prev[1].key \in CachedKeys(cache)
    /\ prev[Capacity].tier = "ShortTerm" /\ prev[Capacity].key \notin CachedKeys(cache)

\* C16: after evict(key) the key is not cached, whether it was or not, the
\* process has not panicked, and every other entry, the same hash under
\* another version or debug flag included, is where and what it was.
C16_EvictRemovesOnlyTheKey ==
    lastOp.op = "evict" =>
        /\ lastOp.ok /\ ~aborted
        /\ lastOp.key \notin CachedKeys(cache)
        /\ cache = SelectSeq(prev, LAMBDA e : e.key # lastOp.key)
        /\ \A e \in Range(prev) : e.key # lastOp.key => e \in Range(cache)

\* The key was cached, and so was the same hash under another version or
\* debug flag, which is still there.
C16_Witness ==
    /\ lastOp.op = "evict"
    /\ lastOp.key \in CachedKeys(prev)
    /\ \E e \in Range(cache) : e.key.hash = lastOp.key.hash /\ e.key # lastOp.key
    /\ Len(cache) + 1 = Len(prev)

\* C17: for contract_call, delegate_call and static_call the handler's
\* allowance starts as the gas the program asked for, only contract_call
\* passes a value, and the closure returns the allowance as the handler left
\* it (the whole of it when the handler did not write), with the handler's
\* return data length and status as they are.
C17_CallsAreConduits ==
    /\ [](pc = "host" /\ request.kind \in CallKinds =>
            /\ request.kind = pending.kind
            /\ request.passed.call_gas = request.evm_gas
            /\ (request.passed.value # NoValue) <=> (request.kind = "contract_call")
            /\ request.kind = "contract_call" => request.passed.value = request.value)
    /\ [][(pc = "host" /\ pc' # "host" /\ pending.kind \in CallKinds) =>
            /\ ret'.cost = (IF pending.touch THEN pending.cost ELSE request.evm_gas)
            /\ ret'.len = pending.len
            /\ ret'.status = pending.status]_vars

\* A contract_call with a value whose handler failed without writing its
\* cost: the whole allowance is the cost, more than the meter holds.
C17_Witness ==
    /\ pc = "returned" /\ run = OutOfInk
    /\ request.kind = "contract_call" /\ request.value = 1
    /\ ~pending.touch /\ pending.status = "Failure" /\ pending.len = 1
    /\ ret.cost = request.evm_gas /\ ret.cost > stylus_gas_left
    /\ ret.len = 1 /\ ret.status = "Failure"

\* How far a run is from its end: the ink on the meter, the stack left, and
\* where the program is between a paid block, a host call and its return.
rank ==
    CASE pc = "done" -> 0
      [] pc = "returned" -> 1
      [] pc \in {"running", "host"} ->
           2 + 3 * stylus_gas_left + stylus_stack_left
             + (IF paid THEN 2 ELSE 0) + (IF pc = "host" THEN 1 ELSE 0)
      [] OTHER -> 0 - 1

\* C18: a run that has started can always take a step until stylus_call has
\* returned, and every step brings it nearer to that: no run is endless.  It
\* ends with one of the five outcomes, set once and not changed afterwards,
\* and the program does not go on once the meter is exhausted or the stack
\* check has tripped.
C18_RunsTerminate ==
    /\ [](pc \in {"running", "host", "returned"} =>
            ENABLED <<(\E c \in 1..MaxStepCost : Step(c)) \/ HostReturn \/ StylusCallExit>>_vars)
    /\ [][(pc \in {"running", "host", "returned"}) => (rank' < rank /\ rank' >= 0)]_vars
    /\ [](pc = "done" =>
            status \in {"Success", "Revert", "Failure", "OutOfInk", "OutOfStack"})
    /\ [][run # NoRun => run' = run]_vars
    /\ [][pc = "done" => (pc' = "done" /\ status' = status /\ output' = output
                          /\ gas_out' = gas_out)]_vars
    /\ []((stylus_gas_status # 0 \/ run = OutOfStack) => pc \in {"returned", "done"})

\* A run that paid for blocks, entered a function and called out, and ended.
C18_Witness ==
    /\ pc = "done" /\ status = "Success"
    /\ ext > 0 /\ stylus_stack_left < MaxDepth
    /\ stylus_gas_left > 0 /\ stylus_gas_left < ink_budget

\* C19: the gas stylus_call writes back is never more than the gas it was
\* given, whatever the outcome, the host charges and the price of ink.
C19_GasNeverGrows ==
    pc = "done" => gas_out <= gas_in

\* A call at more than one ink per gas that paid for blocks and host calls
\* and still wrote gas back.
C19_Witness ==
    /\ pc = "done"
    /\ pricing.num > pricing.den
    /\ ext > 0
    /\ gas_out > 0 /\ gas_out < gas_in
    /\ stylus_gas_left > gas_out

\* C20: a failed stylus_activate returns Failure with the error's message as
\* its whole output and leaves asm_len, module_hash and stylus_data as they
\* were; a successful one returns Success, writes all three, and its output
\* is the asm followed by the module's bytes, asm_len being the length of the
\* asm.  Either way the gas left is written back and the cache is untouched.
C20_ActivateWrites ==
    act_args # NoArgs =>
        /\ cache = act_prev.cache
        /\ act_gas = activated.gas
        /\ act_status \in {"Failure", "Success"}
        /\ (act_status = "Failure") <=> (activated.tag = "Err")
        /\ act_status = "Failure" =>
              /\ act_output = debug_bytes(activated.err)
              /\ act_output # <<>>
              /\ act_asm_len = act_prev.asm_len
              /\ act_module_hash = act_prev.module_hash
              /\ act_stylus_data = act_prev.stylus_data
        /\ act_status = "Success" =>
              /\ act_asm_len = Len(activated.asm)
              /\ act_asm_len > 0
              /\ act_module_hash = act_args.wasm.hash
              /\ act_stylus_data = activated.info
              /\ Len(act_output) > act_asm_len
              /\ SubSeq(act_output, 1, act_asm_len) = activated.asm
              /\ SubSeq(act_output, act_asm_len + 1, Len(act_output))
                   = into_bytes(activated.module)

\* An activation that ran out of gas half way, after one that succeeded for
\* another wasm, with a module cached: the out-parameters are the earlier
\* ones.
C20_Witness ==
    /\ act_args # NoArgs
    /\ act_status = "Failure"
    /\ act_gas < act_args.gas /\ act_gas > 0
    /\ act_asm_len # UnsetLen
    /\ act_module_hash # UnsetHash /\ act_module_hash # act_args.wasm.hash
    /\ cache # <<>>

====
